---- MODULE Spec2Model ----
(***************************************************************************)
(* Model of the single-instrument limit order book of market_simulation    *)
(* (src/orderbook.py) with the Order, Trade and Instrument value types.    *)
(*                                                                         *)
(* Prices are floats in the source.  Here a price is an integer number of  *)
(* units of 1e-9, so that ERROR_TOLERANCE (1e-9) is 1 and the default      *)
(* min_tick_size (0.01) is 10000000; arithmetic on prices is exact.        *)
(* Order.counterpart_id, Order.timestamp and Trade.timestamp are never     *)
(* read by the order book and are left out of the book's records.          *)
(*                                                                         *)
(* The order generator is OrderFactory of src/order_factory.py, the        *)
(* revision its tests exercise.  Two names it reads are never bound there: *)
(* static_order_type in __init__ and order_amount in generate_order.  They *)
(* are taken as in the preceding revision, src/orderbook_factory.py: a     *)
(* constructor argument, and the value of _generate_order_amount().  Ids   *)
(* are Order.generate_id of src/order.py.  Random draws are inputs of the  *)
(* generator's actions.  Timestamps are integers (microseconds).           *)
(***************************************************************************)
EXTENDS Integers, Sequences, FiniteSets, TLC

\* ---------------------------------------------------------------- bounds
\* Number of add_order calls in one run (each order gets a fresh id).
MaxOrders == 3
\* LIMIT prices are drawn around the tick multiples 1..MaxTick.
MaxTick == 2
\* Order amounts are drawn from 1..MaxAmount.
MaxAmount == 2
\* Number of orders one generate_orders call produces, at most.
MaxGenerated == 2

\* ------------------------------------------------------- program constants
ERROR_TOLERANCE == 1
min_tick_size == 10000000

LIMIT == "LIMIT"
MARKET == "MARKET"
BUY == "BUY"
SELL == "SELL"
\* Order.price of an order built without a price (price: float | None)
None == -1

\* The instrument the book was constructed with, and another one.
instrument == [code |-> "AAA", min_tick_size |-> min_tick_size]
other_instrument == [code |-> "BBB", min_tick_size |-> min_tick_size]
Instruments == {instrument, other_instrument}

\* Prices a caller may put on a LIMIT order: the tick multiples, the prices
\* half a tick above a multiple, and one price a tolerance above a multiple.
Prices ==
    {k * min_tick_size : k \in 1..MaxTick}
        \cup {k * min_tick_size + (min_tick_size \div 2) : k \in 1..MaxTick}
        \cup {min_tick_size + ERROR_TOLERANCE}

\* The orders a caller may submit (the id is given at submission): every
\* order for the book's instrument, and the orders of amount 1 for the other.
Orders ==
    [instrument : {instrument}, order_type : {LIMIT}, side : {BUY, SELL},
     amount : 1..MaxAmount, price : Prices]
        \cup
    [instrument : {instrument}, order_type : {MARKET}, side : {BUY, SELL},
     amount : 1..MaxAmount, price : {None}]
        \cup
    [instrument : Instruments \ {instrument}, order_type : {LIMIT},
     side : {BUY, SELL}, amount : {1}, price : Prices]
        \cup
    [instrument : Instruments \ {instrument}, order_type : {MARKET},
     side : {BUY, SELL}, amount : {1}, price : {None}]

NoOrder ==
    [id |-> 0, instrument |-> instrument, order_type |-> LIMIT, side |-> BUY,
     amount |-> 0, price |-> None]

VARIABLES
    bids,           \* OrderBook.bids: resting buy orders, best first
    asks,           \* OrderBook.asks: resting sell orders, best first
    trades,         \* OrderBook.trades: the log of every trade
    nextId,         \* id given to the next submitted order
    submitted,      \* the order as passed to the last add_order call
    incoming_order, \* that order object as the call left it
    returned,       \* the list of trades the last call returned
    outcome,        \* "none" | "returned" | "InstrumentMismatch" | "InvalidPrice"
    bids_before,    \* bids when the last call started
    asks_before,    \* asks when the last call started
    trades_before,  \* trades when the last call started
    factory,        \* OrderFactory: its static_order_type and static_midprice
    order_list,     \* generate_orders: the orders produced so far
    previous_order_time, \* generate_orders: timestamp threaded to the next order
    rounded,        \* the argument and the result of the last _round_up call
    fed             \* how many orders of order_list were passed to add_order

book_vars ==
    <<bids, asks, trades, nextId, submitted, incoming_order, returned, outcome,
      bids_before, asks_before, trades_before>>

factory_vars == <<factory, order_list, previous_order_time, rounded>>

vars == <<book_vars, factory_vars, fed>>

\* ------------------------------------------------------------ arithmetic
Abs(x) == IF x < 0 THEN -x ELSE x

Min(a, b) == IF a <= b THEN a ELSE b

\* Python's round(n / d) for n >= 0, d > 0: nearest integer, halves to even.
PyRound(n, d) ==
    LET q == n \div d
        r == n % d
    IN  IF 2 * r < d THEN q
        ELSE IF 2 * r > d THEN q + 1
        ELSE IF q % 2 = 0 THEN q ELSE q + 1

RECURSIVE SumAmounts(_)
SumAmounts(s) == IF s = <<>> THEN 0 ELSE Head(s).amount + SumAmounts(Tail(s))

\* ------------------------------------------------------------ validation
\* Faulty variant: the error is compared with the tick instead of the tolerance.
validate_limit_price_tick_tolerance(order) ==
    LET limit_price == order.price
        tick_size == instrument.min_tick_size
        error == Abs(PyRound(limit_price, tick_size) * tick_size - limit_price)
    IN  ~(error > tick_size)

\* Faulty variant: abs() is missing, so a price rounded down passes.
validate_limit_price_signed(order) ==
    LET limit_price == order.price
        tick_size == instrument.min_tick_size
        error == PyRound(limit_price, tick_size) * tick_size - limit_price
    IN  ~(error > ERROR_TOLERANCE)

\* TRUE iff _validate_limit_price returns without raising.
validate_limit_price(order) ==
    LET limit_price == order.price
        tick_size == instrument.min_tick_size
        error == Abs(PyRound(limit_price, tick_size) * tick_size - limit_price)
    IN  ~(error > ERROR_TOLERANCE)

\* ------------------------------------------------------ liquidity pre-check
RECURSIVE liquidity_covers(_, _, _)
liquidity_covers(queue, total_liquidity, needed) ==
    IF queue = <<>> THEN FALSE
    ELSE IF total_liquidity + Head(queue).amount >= needed THEN TRUE
    ELSE liquidity_covers(Tail(queue), total_liquidity + Head(queue).amount, needed)

\* Faulty variant: any resting opposing order counts as enough liquidity.
has_sufficient_liquidity_nonempty(order, side, bids_q, asks_q) ==
    IF side = BUY THEN asks_q # <<>>
    ELSE IF side = SELL THEN bids_q # <<>>
    ELSE FALSE

has_sufficient_liquidity(order, side, bids_q, asks_q) ==
    IF side = BUY THEN liquidity_covers(asks_q, 0, order.amount)
    ELSE IF side = SELL THEN liquidity_covers(bids_q, 0, order.amount)
    ELSE FALSE

\* ---------------------------------------------------------------- insertion
RECURSIVE first_lower(_, _, _)
first_lower(queue, price, i) ==
    IF i > Len(queue) THEN 0
    ELSE IF queue[i].price < price THEN i
    ELSE first_lower(queue, price, i + 1)

RECURSIVE first_higher(_, _, _)
first_higher(queue, price, i) ==
    IF i > Len(queue) THEN 0
    ELSE IF queue[i].price > price THEN i
    ELSE first_higher(queue, price, i + 1)

\* deque.insert(i, x) for 1 <= i <= Len
InsertAt(queue, i, x) ==
    SubSeq(queue, 1, i - 1) \o <<x>> \o SubSeq(queue, i, Len(queue))

PriceOrZero(order) == IF order.price = None THEN 0 ELSE order.price

RECURSIVE first_not_higher(_, _, _)
first_not_higher(queue, price, i) ==
    IF i > Len(queue) THEN 0
    ELSE IF queue[i].price <= price THEN i
    ELSE first_not_higher(queue, price, i + 1)

\* Faulty variant: <= in the scan puts the new bid ahead of equal-priced bids.
insert_bid_ahead_of_ties(bids_q, order) ==
    LET i == first_not_higher(bids_q, PriceOrZero(order), 1)
    IN  IF i = 0 THEN Append(bids_q, order) ELSE InsertAt(bids_q, i, order)

insert_bid(bids_q, order) ==
    LET i == first_lower(bids_q, PriceOrZero(order), 1)
    IN  IF i = 0 THEN Append(bids_q, order) ELSE InsertAt(bids_q, i, order)

\* Faulty variant: asks[i] = order instead of asks.insert(i, order).
insert_ask_overwrites(asks_q, order) ==
    LET i == first_higher(asks_q, PriceOrZero(order), 1)
    IN  IF i = 0 THEN Append(asks_q, order) ELSE [asks_q EXCEPT ![i] = order]

insert_ask(asks_q, order) ==
    LET i == first_higher(asks_q, PriceOrZero(order), 1)
    IN  IF i = 0 THEN Append(asks_q, order) ELSE InsertAt(asks_q, i, order)

\* ----------------------------------------------------------------- matching
\* Faulty variant: asks[-1] instead of asks[0].
best_ask_of_back(asks_q) == asks_q[Len(asks_q)]

best_ask_of(asks_q) == asks_q[1]

best_bid_of(bids_q) == bids_q[1]

\* Faulty variant: the comparison is reversed.
buy_limit_stops_reversed(buy_order, best_ask) ==
    (buy_order.order_type = LIMIT)
        /\ (best_ask.price - ERROR_TOLERANCE < buy_order.price)

\* Faulty variant: a LIMIT buy never matches.
buy_limit_stops_always(buy_order, best_ask) == buy_order.order_type = LIMIT

buy_limit_stops(buy_order, best_ask) ==
    (buy_order.order_type = LIMIT)
        /\ (best_ask.price - ERROR_TOLERANCE > buy_order.price)

\* Faulty variant: <= without the tolerance, so an equal-priced bid is refused.
sell_limit_stops_at_equal(sell_order, best_bid) ==
    (sell_order.order_type = LIMIT)
        /\ (best_bid.price <= sell_order.price)

sell_limit_stops(sell_order, best_bid) ==
    (sell_order.order_type = LIMIT)
        /\ (best_bid.price + ERROR_TOLERANCE < sell_order.price)

\* Faulty variant: max instead of min.
buy_matched_amount_max(buy_order, best_ask) ==
    IF buy_order.amount >= best_ask.amount THEN buy_order.amount ELSE best_ask.amount

\* Faulty variant: one unit is matched per iteration.
buy_matched_amount_unit(buy_order, best_ask) == 1

buy_matched_amount(buy_order, best_ask) == Min(buy_order.amount, best_ask.amount)

\* Faulty variant: the whole resting amount is matched.
sell_matched_amount_resting(sell_order, best_bid) == best_bid.amount

sell_matched_amount(sell_order, best_bid) == Min(sell_order.amount, best_bid.amount)

\* Faulty variant: the trade is priced at the incoming order's price.
buy_new_trade_at_own_price(buy_order, best_ask, matched_amount) ==
    [buy_order_id |-> buy_order.id,
     sell_order_id |-> best_ask.id,
     instrument |-> instrument,
     price |-> buy_order.price,
     amount |-> matched_amount]

buy_new_trade(buy_order, best_ask, matched_amount) ==
    [buy_order_id |-> buy_order.id,
     sell_order_id |-> best_ask.id,
     instrument |-> instrument,
     price |-> best_ask.price,
     amount |-> matched_amount]

sell_new_trade(sell_order, best_bid, matched_amount) ==
    [buy_order_id |-> best_bid.id,
     sell_order_id |-> sell_order.id,
     instrument |-> instrument,
     price |-> best_bid.price,
     amount |-> matched_amount]

\* Faulty variant: the head is popped whether or not it was fully filled.
asks_after_match_always_pop(asks_q, best_ask) == Tail(asks_q)

\* the queue after the matched head was decremented: popleft() or asks[0] = best
asks_after_match(asks_q, best_ask) ==
    IF best_ask.amount = 0 THEN Tail(asks_q) ELSE [asks_q EXCEPT ![1] = best_ask]

\* Faulty variant: the head bid is popped whether or not it was fully filled.
bids_after_match_always_pop(bids_q, best_bid) == Tail(bids_q)

bids_after_match(bids_q, best_bid) ==
    IF best_bid.amount = 0 THEN Tail(bids_q) ELSE [bids_q EXCEPT ![1] = best_bid]

\* Faulty variant: the book's log is overwritten with the new trade.
buy_record_trade_overwrite(trades_log, new_trade) == <<new_trade>>

\* self.trades.append(new_trade)
buy_record_trade(trades_log, new_trade) == Append(trades_log, new_trade)

\* The while loop of _execute_buy_matches; `local` is its trades list.
RECURSIVE execute_buy_matches(_, _, _, _)
execute_buy_matches(buy_order, asks_q, trades_log, local) ==
    LET done == [order |-> buy_order, asks |-> asks_q,
                 trades |-> trades_log, returned |-> local]
    IN  IF ~(buy_order.amount > 0 /\ asks_q # <<>>) THEN done
        ELSE LET best_ask == best_ask_of(asks_q)
             IN  IF buy_limit_stops(buy_order, best_ask) THEN done
                 ELSE LET matched_amount == buy_matched_amount(buy_order, best_ask)
                          new_trade == buy_new_trade(buy_order, best_ask, matched_amount)
                          buy2 == [buy_order EXCEPT !.amount = @ - matched_amount]
                          ask2 == [best_ask EXCEPT !.amount = @ - matched_amount]
                          asks2 == asks_after_match(asks_q, ask2)
                          log2 == buy_record_trade(trades_log, new_trade)
                          local2 == Append(local, new_trade)
                      IN  IF buy2.amount = 0
                          THEN [order |-> buy2, asks |-> asks2,
                                trades |-> log2, returned |-> local2]
                          ELSE execute_buy_matches(buy2, asks2, log2, local2)

RECURSIVE execute_sell_matches(_, _, _, _)
execute_sell_matches(sell_order, bids_q, trades_log, local) ==
    LET done == [order |-> sell_order, bids |-> bids_q,
                 trades |-> trades_log, returned |-> local]
    IN  IF ~(sell_order.amount > 0 /\ bids_q # <<>>) THEN done
        ELSE LET best_bid == best_bid_of(bids_q)
             IN  IF sell_limit_stops(sell_order, best_bid) THEN done
                 ELSE LET matched_amount == sell_matched_amount(sell_order, best_bid)
                          new_trade == sell_new_trade(sell_order, best_bid, matched_amount)
                          sell2 == [sell_order EXCEPT !.amount = @ - matched_amount]
                          bid2 == [best_bid EXCEPT !.amount = @ - matched_amount]
                          bids2 == bids_after_match(bids_q, bid2)
                          log2 == Append(trades_log, new_trade)
                          local2 == Append(local, new_trade)
                      IN  IF sell2.amount = 0
                          THEN [order |-> sell2, bids |-> bids2,
                                trades |-> log2, returned |-> local2]
                          ELSE execute_sell_matches(sell2, bids2, log2, local2)

\* Faulty variant: >= 0 lets a fully filled LIMIT buy rest.
buy_leftover_rests_when_filled(buy_order) ==
    (buy_order.amount >= 0) /\ (buy_order.order_type = LIMIT)

buy_leftover_rests(buy_order) ==
    (buy_order.amount > 0) /\ (buy_order.order_type = LIMIT)

sell_leftover_rests(sell_order) ==
    (sell_order.amount > 0) /\ (sell_order.order_type = LIMIT)

\* Both return the book after the call and the returned trade list.
match_buy_order(buy_order, bids_q, asks_q, trades_log) ==
    IF buy_order.order_type = MARKET
           /\ ~has_sufficient_liquidity(buy_order, BUY, bids_q, asks_q)
    THEN [order |-> buy_order, bids |-> bids_q, asks |-> asks_q,
          trades |-> trades_log, returned |-> <<>>]
    ELSE LET m == execute_buy_matches(buy_order, asks_q, trades_log, <<>>)
         IN  [order |-> m.order,
              bids |-> IF buy_leftover_rests(m.order)
                       THEN insert_bid(bids_q, m.order) ELSE bids_q,
              asks |-> m.asks,
              trades |-> m.trades,
              returned |-> m.returned]

match_sell_order(sell_order, bids_q, asks_q, trades_log) ==
    IF sell_order.order_type = MARKET
           /\ ~has_sufficient_liquidity(sell_order, SELL, bids_q, asks_q)
    THEN [order |-> sell_order, bids |-> bids_q, asks |-> asks_q,
          trades |-> trades_log, returned |-> <<>>]
    ELSE LET m == execute_sell_matches(sell_order, bids_q, trades_log, <<>>)
         IN  [order |-> m.order,
              bids |-> m.bids,
              asks |-> IF sell_leftover_rests(m.order)
                       THEN insert_ask(asks_q, m.order) ELSE asks_q,
              trades |-> m.trades,
              returned |-> m.returned]

\* Faulty variant: the tick-size check runs before the instrument check.
validation_error_price_first(order) ==
    IF order.order_type = LIMIT /\ ~validate_limit_price(order) THEN "InvalidPrice"
    ELSE IF order.instrument # instrument THEN "InstrumentMismatch"
    ELSE "none"

\* "none" when add_order passes validation, else the error it raises.
validation_error(order) ==
    IF order.instrument # instrument THEN "InstrumentMismatch"
    ELSE IF order.order_type = LIMIT /\ ~validate_limit_price(order) THEN "InvalidPrice"
    ELSE "none"

\* ---------------------------------------------------------- order factory
\* OrderFactory.static_order_type when no override is configured
NoType == "None"

max_amount == MaxAmount

max_halfspread == 2 * min_tick_size

start_time == 0

\* The configurations of the factory: the type override, and a static
\* midprice on the tick grid or a quarter tick above it.
Factories ==
    [static_order_type : {NoType, MARKET},
     static_midprice : {3 * min_tick_size, 3 * min_tick_size + (min_tick_size \div 4)}]

NoFactory == [static_order_type |-> NoType, static_midprice |-> 3 * min_tick_size]

\* Before the first _round_up call.
NotRounded == [value |-> 0, precision |-> min_tick_size, result |-> 0]

\* randint(1000, 1010): one member of the pool
CounterpartIds == {1000}

\* expovariate(arrivals_rate), in microseconds; 0.0 is a possible value
IntervalTimes == {0, 1}

\* expovariate(hazard_rate), in microseconds; 0.0 is a possible value, and
\* timedelta rounds any lifetime below half a microsecond to 0
LifetimeDraws == {0, 1}

\* expovariate(5 / max_amount), in halves: 0.0, 0.5 and a value above max_amount
AmountDraws == {0, 1, 2 * max_amount + 1}

\* random() inside uniform(), in quarters: 0.0 and 0.25
OffsetDraws == {0, 1}

\* The random draws of one generate_order call.
Draws(counterparts, intervals, lifetimes) ==
    [counterpart_id : counterparts, below_buy_ratio : BOOLEAN,
     below_limit_order_ratio : BOOLEAN, amount_draw : AmountDraws,
     offset_draw : OffsetDraws, interval_time : intervals,
     order_lifetime : lifetimes]

\* Faulty variant: the value is returned as it is.
round_up_skipped(value, precision) == value

\* _round_up: float(round(value / precision) * precision)
round_up(value, precision) == PyRound(value, precision) * precision

generate_order_side(below_buy_ratio) == IF below_buy_ratio THEN BUY ELSE SELL

genereate_order_type(below_limit_order_ratio) ==
    IF below_limit_order_ratio THEN LIMIT ELSE MARKET

\* min(math.ceil(draw), max_amount), the draw given in halves
generate_order_amount(amount_draw) == Min((amount_draw + 1) \div 2, max_amount)

\* midprice + midprice_offset, the value _generate_order_price rounds
price_before_rounding(f, amount, side, offset_draw) ==
    LET midprice == f.static_midprice
        max_offset == (max_halfspread * amount) \div max_amount
        drawn == (offset_draw * max_offset) \div 4
        midprice_offset == IF side = SELL THEN drawn ELSE -drawn
    IN  midprice + midprice_offset

generate_order_price(f, amount, side, offset_draw) ==
    round_up(price_before_rounding(f, amount, side, offset_draw), min_tick_size)

\* Order.generate_id: hash(str(order)).  str() of the dataclass prints its
\* fields (not the timestamp attribute); equal strings have equal hashes.
generate_id(order) ==
    <<order.counterpart_id, order.instrument.code, order.order_type, order.side,
      order.amount, order.price>>

generate_order(f, previous_order_ts, d) ==
    LET order_counterpart_id == d.counterpart_id
        order_side == generate_order_side(d.below_buy_ratio)
        order_type == genereate_order_type(d.below_limit_order_ratio)
        order_amount == generate_order_amount(d.amount_draw)
        order_price == IF order_type = LIMIT
                       THEN generate_order_price(f, order_amount, order_side, d.offset_draw)
                       ELSE None
        order_timestamp == previous_order_ts + d.interval_time
        order_cancellation_timestamp == order_timestamp + d.order_lifetime
        new_order == [timestamp |-> order_timestamp,
                      cancellation_timestamp |-> order_cancellation_timestamp,
                      counterpart_id |-> order_counterpart_id,
                      instrument |-> instrument,
                      order_type |-> order_type,
                      side |-> order_side,
                      amount |-> order_amount,
                      price |-> order_price]
    IN  [id |-> generate_id(new_order),
         timestamp |-> new_order.timestamp,
         cancellation_timestamp |-> new_order.cancellation_timestamp,
         counterpart_id |-> new_order.counterpart_id,
         instrument |-> new_order.instrument,
         order_type |-> new_order.order_type,
         side |-> new_order.side,
         amount |-> new_order.amount,
         price |-> new_order.price]

\* Faulty variant: the timestamp is not threaded forward.
next_order_time_kept(new_order, previous_order_ts) == previous_order_ts

\* previous_order_time = new_order.timestamp
next_order_time(new_order, previous_order_ts) == new_order.timestamp

\* What the order book reads of a generated order.
BookOrder(o) ==
    [id |-> o.id, instrument |-> o.instrument, order_type |-> o.order_type,
     side |-> o.side, amount |-> o.amount, price |-> o.price]

\* ------------------------------------------------------------------ actions
BookInit ==
    /\ bids = <<>>
    /\ asks = <<>>
    /\ trades = <<>>
    /\ nextId = 1
    /\ submitted = NoOrder
    /\ incoming_order = NoOrder
    /\ returned = <<>>
    /\ outcome = "none"
    /\ bids_before = <<>>
    /\ asks_before = <<>>
    /\ trades_before = <<>>

Init ==
    /\ BookInit
    /\ factory = NoFactory
    /\ order_list = <<>>
    /\ previous_order_time = start_time
    /\ rounded = NotRounded
    /\ fed = 0

\* One call OrderBook.add_order(order).  A ValueError raised by the call
\* propagates to the caller and ends the run of calls.
add_order(order) ==
    LET error == validation_error(order)
    IN  /\ outcome \in {"none", "returned"}
        /\ nextId' = nextId + 1
        /\ submitted' = order
        /\ bids_before' = bids
        /\ asks_before' = asks
        /\ trades_before' = trades
        /\ IF error # "none"
           THEN /\ outcome' = error
                /\ returned' = <<>>
                /\ incoming_order' = order
                /\ UNCHANGED <<bids, asks, trades>>
           ELSE LET r == IF order.side = BUY
                         THEN match_buy_order(order, bids, asks, trades)
                         ELSE match_sell_order(order, bids, asks, trades)
                IN  /\ outcome' = "returned"
                    /\ returned' = r.returned
                    /\ incoming_order' = r.order
                    /\ bids' = r.bids
                    /\ asks' = r.asks
                    /\ trades' = r.trades

\* A caller submits any order, giving it the id nextId.
Next ==
    \E o \in Orders :
        /\ nextId <= MaxOrders
        /\ add_order([id |-> nextId, instrument |-> o.instrument,
                      order_type |-> o.order_type, side |-> o.side,
                      amount |-> o.amount, price |-> o.price])
        /\ UNCHANGED <<factory_vars, fed>>

Spec == Init /\ [][Next]_vars

\* One iteration of the loop of generate_orders.
generate_orders(counterparts, intervals, lifetimes) ==
    /\ Len(order_list) < MaxGenerated
    /\ fed = 0
    /\ \E d \in Draws(counterparts, intervals, lifetimes) :
           LET new_order == generate_order(factory, previous_order_time, d)
           IN  /\ order_list' = Append(order_list, new_order)
               /\ previous_order_time' = next_order_time(new_order, previous_order_time)
               /\ rounded' =
                      IF new_order.order_type = LIMIT
                      THEN [value |-> price_before_rounding(
                                          factory, new_order.amount,
                                          new_order.side, d.offset_draw),
                            precision |-> min_tick_size,
                            result |-> new_order.price]
                      ELSE rounded
    /\ UNCHANGED <<book_vars, factory, fed>>

\* The next generated order is passed to the order book.
feed_order ==
    /\ fed < Len(order_list)
    /\ add_order(BookOrder(order_list[fed + 1]))
    /\ fed' = fed + 1
    /\ UNCHANGED factory_vars

FactoryInit ==
    /\ BookInit
    /\ factory \in Factories
    /\ order_list = <<>>
    /\ previous_order_time = start_time
    /\ rounded = NotRounded
    /\ fed = 0

\* The generator alone: generate_orders(start_time, n) for n <= MaxGenerated.
GenNext == generate_orders(CounterpartIds, IntervalTimes, LifetimeDraws)

GenSpec == FactoryInit /\ [][GenNext]_vars

\* The generator driving the book: the generated list is submitted in
\* sequence.  The book reads neither counterpart ids nor timestamps, so the
\* interarrival time and the lifetime are fixed here.
FeedNext ==
    \/ generate_orders(CounterpartIds, {1}, {1})
    \/ feed_order

FeedSpec == FactoryInit /\ [][FeedNext]_vars

TypeOK ==
    /\ nextId \in 1..(MaxOrders + 1)
    /\ outcome \in {"none", "returned", "InstrumentMismatch", "InvalidPrice"}
    /\ Len(bids) <= MaxOrders
    /\ Len(asks) <= MaxOrders

\* ------------------------------------------------- vocabulary of the claims
Called == outcome # "none"

Accepted == outcome = "returned"

Raised == outcome \in {"InstrumentMismatch", "InvalidPrice"}

BookUnchanged ==
    /\ bids = bids_before
    /\ asks = asks_before
    /\ trades = trades_before

\* The queue the last incoming order was matched against, before and after.
OpposingBefore == IF submitted.side = BUY THEN asks_before ELSE bids_before

OpposingAfter == IF submitted.side = BUY THEN asks ELSE bids

RestingIdOf(t) == IF submitted.side = BUY THEN t.sell_order_id ELSE t.buy_order_id

IncomingIdOf(t) == IF submitted.side = BUY THEN t.buy_order_id ELSE t.sell_order_id

\* Amount the returned trades 1..k-1 took from the resting order `id`.
RECURSIVE TradedBefore(_, _)
TradedBefore(id, k) ==
    IF k <= 1 THEN 0
    ELSE TradedBefore(id, k - 1)
             + (IF RestingIdOf(returned[k - 1]) = id THEN returned[k - 1].amount ELSE 0)

\* Amount the order o of OpposingBefore still had just before returned[k].
RemainingBefore(o, k) == o.amount - TradedBefore(o.id, k)

\* Amount the incoming order still had just before returned[k].
IncomingBefore(k) == submitted.amount - SumAmounts(SubSeq(returned, 1, k - 1))

\* r is ahead of o in price-time priority on the side opposing the incoming order.
Outranks(r, o) ==
    \/ (submitted.side = BUY /\ r.price < o.price)
    \/ (submitted.side = SELL /\ r.price > o.price)
    \/ (r.price = o.price /\ r.id < o.id)

IsResting(id) ==
    \/ \E i \in 1..Len(bids) : bids[i].id = id
    \/ \E i \in 1..Len(asks) : asks[i].id = id

\* Distance of a price to the nearest multiple of the tick exceeds the tolerance.
Misaligned(price) ==
    LET r == price % min_tick_size
    IN  r > ERROR_TOLERANCE /\ min_tick_size - r > ERROR_TOLERANCE

\* ------------------------------------------------------------------- claims

\* C1: after every add_order call bids is sorted by descending price and asks
\* by ascending price, and among resting orders of equal price the one
\* submitted earlier (smaller id) is nearer the front.
C1_SortedFifo ==
    /\ \A i, j \in 1..Len(bids) :
           i < j => \/ bids[i].price > bids[j].price
                    \/ (bids[i].price = bids[j].price /\ bids[i].id < bids[j].id)
    /\ \A i, j \in 1..Len(asks) :
           i < j => \/ asks[i].price < asks[j].price
                    \/ (asks[i].price = asks[j].price /\ asks[i].id < asks[j].id)

\* A bid inserted behind an equal-priced earlier bid and ahead of a worse one.
C1_Witness ==
    /\ Accepted
    /\ Len(bids) = 3
    /\ bids[2].id = submitted.id
    /\ bids[1].price = bids[2].price
    /\ bids[2].price > bids[3].price

\* C2: a MARKET order is either fully filled (trade amounts sum to its original
\* amount, its amount ends at 0, it is not queued) or fully rejected (no trade
\* returned; bids, asks and the trades log unchanged), and never both.
C2_MarketAllOrNothing ==
    (Called /\ submitted.order_type = MARKET) =>
        LET filled ==
                /\ Accepted
                /\ SumAmounts(returned) = submitted.amount
                /\ incoming_order.amount = 0
                /\ ~IsResting(submitted.id)
            rejected ==
                /\ returned = <<>>
                /\ BookUnchanged
        IN  (filled \/ rejected) /\ ~(filled /\ rejected)

\* A MARKET order filled by two resting orders while more liquidity remains.
C2_Witness ==
    /\ Accepted
    /\ submitted.order_type = MARKET
    /\ Len(returned) = 2
    /\ OpposingAfter # <<>>

\* C3: every trade of an incoming LIMIT order is at a price no worse than its
\* limit: at most price + tolerance for a BUY, at least price - tolerance for
\* a SELL.
C3_LimitPriceRespected ==
    (Accepted /\ submitted.order_type = LIMIT) =>
        \A k \in 1..Len(returned) :
            /\ submitted.side = BUY =>
                   returned[k].price <= submitted.price + ERROR_TOLERANCE
            /\ submitted.side = SELL =>
                   returned[k].price >= submitted.price - ERROR_TOLERANCE

\* A LIMIT BUY that traded above its limit, inside the tolerance, and then
\* stopped at a worse ask.
C3_Witness ==
    /\ Accepted
    /\ submitted.order_type = LIMIT
    /\ submitted.side = BUY
    /\ Len(returned) = 1
    /\ returned[1].price = submitted.price + ERROR_TOLERANCE
    /\ asks # <<>>
    /\ IsResting(submitted.id)

\* C4: when the order's instrument differs from the book's, or a LIMIT price
\* is off the tick grid beyond the tolerance, add_order raises, and after a
\* raise bids, asks (with every resting amount) and the trades log are as
\* they were before the call.
C4_AtomicRejection ==
    Called =>
        LET fails ==
                \/ submitted.instrument # instrument
                \/ (submitted.order_type = LIMIT /\ Misaligned(submitted.price))
        IN  /\ fails => Raised
            /\ Raised => (BookUnchanged /\ returned = <<>>)

\* A misaligned LIMIT order refused by a book that holds bids, asks and trades.
C4_Witness ==
    /\ outcome = "InvalidPrice"
    /\ bids # <<>>
    /\ asks # <<>>
    /\ submitted.instrument = instrument

\* C5: price-time priority.  Each returned trade is against a resting opposing
\* order, and at that moment no opposing order with a strictly better price,
\* or with the same price and an earlier arrival, has amount remaining.
C5_PriceTimePriority ==
    Accepted =>
        \A k \in 1..Len(returned) :
            \E i \in 1..Len(OpposingBefore) :
                /\ OpposingBefore[i].id = RestingIdOf(returned[k])
                /\ \A j \in 1..Len(OpposingBefore) :
                       Outranks(OpposingBefore[j], OpposingBefore[i])
                           => RemainingBefore(OpposingBefore[j], k) = 0

\* Two equal-priced resting orders served in arrival order by one call.
C5_Witness ==
    /\ Accepted
    /\ Len(returned) = 2
    /\ returned[1].price = returned[2].price
    /\ RestingIdOf(returned[1]) < RestingIdOf(returned[2])

\* C6: a trade's price is the price of the resting order it was matched with,
\* its buy_order_id is the buyer's id and its sell_order_id the seller's id
\* (incoming BUY: buy = incoming, sell = resting ask; incoming SELL: buy =
\* resting bid, sell = incoming).
C6_TradePriceAndIds ==
    Accepted =>
        \A k \in 1..Len(returned) :
            /\ IncomingIdOf(returned[k]) = submitted.id
            /\ RestingIdOf(returned[k]) # submitted.id
            /\ \E i \in 1..Len(OpposingBefore) :
                   /\ OpposingBefore[i].id = RestingIdOf(returned[k])
                   /\ OpposingBefore[i].price = returned[k].price
                   /\ OpposingBefore[i].side # submitted.side

\* A LIMIT BUY priced above the ask it took: the trade is at the ask's price.
C6_Witness ==
    /\ Accepted
    /\ submitted.order_type = LIMIT
    /\ submitted.side = BUY
    /\ returned # <<>>
    /\ returned[1].price < submitted.price - ERROR_TOLERANCE

\* C7: conservation.  Every trade's amount is at most the smaller of the
\* amounts the two matched orders had just before the match, and the trade
\* amounts of one call sum to at most the incoming order's original amount.
C7_Conservation ==
    Accepted =>
        /\ SumAmounts(returned) <= submitted.amount
        /\ \A k \in 1..Len(returned) :
               /\ returned[k].amount <= IncomingBefore(k)
               /\ \E i \in 1..Len(OpposingBefore) :
                      /\ OpposingBefore[i].id = RestingIdOf(returned[k])
                      /\ returned[k].amount <= RemainingBefore(OpposingBefore[i], k)

\* A call whose second trade left part of the resting order unfilled.
C7_Witness ==
    /\ Accepted
    /\ Len(returned) = 2
    /\ OpposingAfter # <<>>
    /\ OpposingAfter[1].id = RestingIdOf(returned[2])
    /\ SumAmounts(returned) = submitted.amount

\* C8: between add_order calls every order in bids or asks has amount > 0 and
\* order type LIMIT.
C8_RestingPositiveLimit ==
    /\ \A i \in 1..Len(bids) : bids[i].amount > 0 /\ bids[i].order_type = LIMIT
    /\ \A i \in 1..Len(asks) : asks[i].amount > 0 /\ asks[i].order_type = LIMIT

\* A LIMIT order filled exactly by the head of the opposing queue: the head is
\* gone, the incoming order does not rest, another order still rests.
C8_Witness ==
    /\ Accepted
    /\ submitted.order_type = LIMIT
    /\ Len(returned) = 1
    /\ incoming_order.amount = 0
    /\ ~IsResting(submitted.id)
    /\ ~IsResting(RestingIdOf(returned[1]))
    /\ Len(OpposingAfter) = Len(OpposingBefore) - 1
    /\ OpposingAfter # <<>>

\* The second call of a run finds exactly the first call's LIMIT BUY, untouched.
AfterSingleBuy ==
    /\ nextId = 3
    /\ asks_before = <<>>
    /\ trades_before = <<>>
    /\ Len(bids_before) = 1
    /\ bids_before[1].id = 1

SellOfSameAmount ==
    /\ submitted.side = SELL
    /\ submitted.order_type = LIMIT
    /\ submitted.instrument = instrument
    /\ submitted.amount = bids_before[1].amount
    /\ submitted.price <= bids_before[1].price

OneTradeEmptiesBook ==
    /\ Len(returned) = 1
    /\ returned[1].price = bids_before[1].price
    /\ returned[1].amount = bids_before[1].amount
    /\ bids = <<>>
    /\ asks = <<>>

\* C9 as stated: a LIMIT BUY (P, A) into an empty book followed by a LIMIT SELL
\* (Q, A) with any price Q <= P yields exactly one trade, at price P with
\* amount A, and leaves bids and asks empty.
C9_AnyLowerPrice ==
    (AfterSingleBuy /\ SellOfSameAmount) => OneTradeEmptiesBook

\* C9 (amended): the same for every price Q <= P that is on the tick grid
\* within the tolerance.
C9_RoundTrip ==
    (AfterSingleBuy /\ SellOfSameAmount /\ ~Misaligned(submitted.price))
        => (Accepted /\ OneTradeEmptiesBook)

\* A SELL priced strictly below the resting BUY of the same amount.
C9_Witness ==
    /\ AfterSingleBuy
    /\ SellOfSameAmount
    /\ Accepted
    /\ submitted.price < bids_before[1].price - ERROR_TOLERANCE
    /\ bids = <<>>

\* C10: with one LIMIT SELL (P, A) resting in an otherwise empty book, a LIMIT
\* BUY (P, B) with 0 < B < A yields exactly one trade at price P with amount
\* B, leaves that ask resting with amount A - B, and leaves bids empty.
C10_PartialFillOfResting ==
    ( /\ Called
      /\ bids_before = <<>>
      /\ Len(asks_before) = 1
      /\ submitted.side = BUY
      /\ submitted.order_type = LIMIT
      /\ submitted.instrument = instrument
      /\ submitted.price = asks_before[1].price
      /\ submitted.amount < asks_before[1].amount )
        => /\ Accepted
           /\ Len(returned) = 1
           /\ returned[1].price = asks_before[1].price
           /\ returned[1].amount = submitted.amount
           /\ asks = <<[asks_before[1] EXCEPT
                            !.amount = asks_before[1].amount - submitted.amount]>>
           /\ bids = <<>>

\* The resting ask was partly taken by a smaller BUY at its own price.
C10_Witness ==
    /\ Accepted
    /\ bids_before = <<>>
    /\ Len(asks_before) = 1
    /\ submitted.side = BUY
    /\ submitted.order_type = LIMIT
    /\ submitted.price = asks_before[1].price
    /\ Len(asks) = 1
    /\ asks[1].amount = asks_before[1].amount - submitted.amount
    /\ asks[1].amount > 0
    /\ Len(returned) = 1

\* C11: a LIMIT order priced half a tick above a tick multiple raises the
\* invalid-price error, a LIMIT order priced at a tick multiple is accepted,
\* and a MARKET order is never refused for its price.
C11_TickSizeValidation ==
    (Called /\ submitted.instrument = instrument) =>
        /\ (submitted.order_type = LIMIT
                /\ submitted.price % min_tick_size = min_tick_size \div 2)
               => outcome = "InvalidPrice"
        /\ (submitted.order_type = LIMIT /\ submitted.price % min_tick_size = 0)
               => Accepted
        /\ submitted.order_type = MARKET => Accepted

\* A price half a tick above an even multiple, which round() takes down.
C11_Witness ==
    /\ outcome = "InvalidPrice"
    /\ submitted.price = 2 * min_tick_size + (min_tick_size \div 2)
    /\ PyRound(submitted.price, min_tick_size) = 2

\* Amount the returned trades of the last call took from the resting order id.
TradedInCall(id) == TradedBefore(id, Len(returned) + 1)

\* The order of queue_before is in queue_after, with its amount reduced by
\* what the last call traded against it, unless that was all of it.
KeptUntilFilled(queue_before, queue_after, other_after) ==
    \A i \in 1..Len(queue_before) :
        LET o == queue_before[i]
            left == o.amount - (IF submitted.side = o.side THEN 0 ELSE TradedInCall(o.id))
        IN  /\ left >= 0
            /\ ~\E j \in 1..Len(other_after) : other_after[j].id = o.id
            /\ IF left = 0
               THEN ~\E j \in 1..Len(queue_after) : queue_after[j].id = o.id
               ELSE \E j \in 1..Len(queue_after) :
                        queue_after[j] = [o EXCEPT !.amount = left]

\* C18: a resting order leaves its queue only by being fully matched.  Across
\* every add_order call an order that rested before the call still rests in
\* the same queue, its amount reduced by exactly what the call traded against
\* it, and it is gone after the call iff that took its amount to 0.
C18_LeavesOnlyWhenFilled ==
    Called =>
        /\ KeptUntilFilled(bids_before, bids, asks)
        /\ KeptUntilFilled(asks_before, asks, bids)

\* One call removed a filled bid and left the next bid partly filled.
C18_Witness ==
    /\ Accepted
    /\ submitted.side = SELL
    /\ Len(returned) = 2
    /\ Len(bids_before) = 2
    /\ Len(bids) = 1
    /\ bids[1].id = bids_before[2].id
    /\ bids[1].amount < bids_before[2].amount

\* C19: the trades log is append-only.  After every call it is its value
\* before the call followed by the returned trades in order; a rejected
\* MARKET order or a validation error leaves it unchanged.
C19_TradesAppendOnly ==
    Called =>
        /\ trades = trades_before \o returned
        /\ (Raised \/ returned = <<>>) => trades = trades_before

\* A call that appended a trade behind an earlier one.
C19_Witness ==
    /\ Accepted
    /\ trades_before # <<>>
    /\ returned # <<>>
    /\ Len(trades) = Len(trades_before) + Len(returned)

\* C20: the instrument check precedes the tick-size check: an order with a
\* foreign instrument is refused with the instrument-mismatch error, also when
\* it is a LIMIT order with a misaligned price.
C20_InstrumentCheckedFirst ==
    (Called /\ submitted.instrument # instrument) => outcome = "InstrumentMismatch"

\* A foreign LIMIT order with a misaligned price.
C20_Witness ==
    /\ outcome = "InstrumentMismatch"
    /\ submitted.order_type = LIMIT
    /\ Misaligned(submitted.price)

\* C12 as stated: add_order of a generated LIMIT order returns no trades.
C12_GeneratedLimitNeverTrades ==
    (fed > 0 /\ submitted.order_type = LIMIT) => returned = <<>>

\* C13 as stated: any two orders of one generate_orders run have different ids.
C13_UniqueIds ==
    \A i, j \in 1..Len(order_list) : i # j => order_list[i].id # order_list[j].id

\* C14 as stated: with a static order type configured, every generated order
\* has that type.
C14_StaticTypeForced ==
    factory.static_order_type # NoType =>
        \A i \in 1..Len(order_list) :
            order_list[i].order_type = factory.static_order_type

\* C15: the timestamps of the orders generate_orders returns are
\* non-decreasing in list order and none is earlier than start_time.
C15_TimestampsOrdered ==
    /\ \A i \in 1..Len(order_list) : order_list[i].timestamp >= start_time
    /\ \A i, j \in 1..Len(order_list) :
           i < j => order_list[i].timestamp <= order_list[j].timestamp

\* Two orders, the second with a zero interarrival time after a positive one.
C15_Witness ==
    /\ Len(order_list) = 2
    /\ order_list[1].timestamp > start_time
    /\ order_list[2].timestamp = order_list[1].timestamp

\* C16 as stated: every generated amount is in 1..max_amount.
C16_AmountInRange ==
    \A i \in 1..Len(order_list) :
        1 <= order_list[i].amount /\ order_list[i].amount <= max_amount

Iterations ==
    Len(returned)
        + (IF /\ submitted.order_type = LIMIT
              /\ incoming_order.amount > 0
              /\ OpposingAfter # <<>>
           THEN 1 ELSE 0)

\* Heads of the opposing queue the last call removed.
HeadsRemoved == Len(OpposingBefore) - Len(OpposingAfter)

\* C21: every add_order call terminates within as many iterations of the
\* matching loop as there were resting opposing orders: every iteration that
\* trades removes the head of the opposing queue, except a last one that
\* exhausts the incoming order instead.
C21_LoopBounded ==
    Accepted =>
        /\ Iterations <= Len(OpposingBefore)
        /\ HeadsRemoved >= Len(returned) - 1
        /\ (returned # <<>> /\ HeadsRemoved = Len(returned) - 1)
               => incoming_order.amount = 0

\* A call whose loop ran twice: it removed one head and was exhausted on the
\* next one.
C21_Witness ==
    /\ Accepted
    /\ Len(OpposingBefore) = 2
    /\ Len(returned) = 2
    /\ HeadsRemoved = 1
    /\ incoming_order.amount = 0

\* C22 as stated: _round_up returns the smallest multiple of the precision
\* that is not below the value, so a generated LIMIT price is never below
\* midprice + signed offset.
C22_RoundsUp ==
    /\ rounded.result % rounded.precision = 0
    /\ rounded.result >= rounded.value
    /\ rounded.result - rounded.value < rounded.precision

\* C23 as stated: every generated order's cancellation timestamp is strictly
\* later than its timestamp.
C23_CancelledLater ==
    \A i \in 1..Len(order_list) :
        order_list[i].timestamp < order_list[i].cancellation_timestamp

\* C24: the book is never crossed.  In every state reachable by add_order
\* calls from the empty book, if bids and asks are both non-empty the best
\* bid's price is strictly below the best ask's price.
C24_NeverCrossed ==
    (bids # <<>> /\ asks # <<>>) => bids[1].price < asks[1].price

\* A LIMIT BUY that took the best ask, stopped at the next ask's price and
\* rests below it.
C24_Witness ==
    /\ Accepted
    /\ submitted.side = BUY
    /\ returned # <<>>
    /\ asks # <<>>
    /\ bids # <<>>
    /\ bids[1].id = submitted.id

\* The queue of the incoming order's own side, before and after the last call.
OwnBefore == IF submitted.side = BUY THEN bids_before ELSE asks_before

OwnAfter == IF submitted.side = BUY THEN bids ELSE asks

\* Amount with which the order `id` rests in the queue (0 if it does not).
RECURSIVE RestingAmount(_, _)
RestingAmount(queue, id) ==
    IF queue = <<>> THEN 0
    ELSE (IF Head(queue).id = id THEN Head(queue).amount ELSE 0)
             + RestingAmount(Tail(queue), id)

\* C25: exact accounting for LIMIT orders.  For every accepted LIMIT order of
\* amount A, the returned trade amounts plus the amount with which the order
\* then rests on its own side (0 if it does not rest) equal A, and the total
\* amount resting on the opposing side went down by exactly the returned
\* trade amounts.
C25_LimitAccounting ==
    (Accepted /\ submitted.order_type = LIMIT) =>
        /\ SumAmounts(returned) + RestingAmount(OwnAfter, submitted.id)
               = submitted.amount
        /\ RestingAmount(OpposingAfter, submitted.id) = 0
        /\ SumAmounts(OpposingBefore) - SumAmounts(OpposingAfter)
               = SumAmounts(returned)

\* A LIMIT SELL filled in part by the only bid, resting with the remainder.
C25_Witness ==
    /\ Accepted
    /\ submitted.order_type = LIMIT
    /\ submitted.side = SELL
    /\ SumAmounts(returned) > 0
    /\ RestingAmount(asks, submitted.id) > 0
    /\ SumAmounts(returned) < submitted.amount

\* The queue without the order `id`.
Without(queue, id) == SelectSeq(queue, LAMBDA o : o.id # id)

\* queue_after is queue_before with k orders taken from the front, the next
\* one possibly reduced in amount and the rest as they were.
ConsumedFromFront(queue_before, queue_after) ==
    LET k == Len(queue_before) - Len(queue_after)
    IN  /\ k >= 0
        /\ \A j \in 1..Len(queue_after) :
               IF j = 1
               THEN /\ queue_after[1].amount <= queue_before[k + 1].amount
                    /\ queue_after[1]
                           = [queue_before[k + 1] EXCEPT !.amount = queue_after[1].amount]
               ELSE queue_after[j] = queue_before[k + j]

\* C26: add_order never disturbs the incoming order's own side.  The orders
\* already resting there keep their amounts and their relative order, the
\* only change being the insertion of the incoming order's residual; the
\* opposing queue is only consumed from the front, the surviving orders
\* keeping their relative order.
C26_OwnSideUndisturbed ==
    Called =>
        /\ Without(OwnAfter, submitted.id) = OwnBefore
        /\ Len(OwnAfter) <= Len(OwnBefore) + 1
        /\ ConsumedFromFront(OpposingBefore, OpposingAfter)

\* A LIMIT SELL that consumed the only bid and whose residual was inserted
\* ahead of the ask already resting.
C26_Witness ==
    /\ Accepted
    /\ submitted.side = SELL
    /\ returned # <<>>
    /\ Len(asks_before) = 1
    /\ Len(asks) = 2
    /\ asks[1].id = submitted.id
    /\ asks[2] = asks_before[1]
====
